---- MODULE Spec2Model ----
(***************************************************************************)
(* Model of the cross-encoder reranking service                            *)
(* (src/src/reranker_service/service.py, class CrossEncoderReranker).      *)
(*                                                                         *)
(* Strings are sequences of one-character strings, so that strip() and     *)
(* the byte-wise concatenation fed to the digest are computed as the code  *)
(* computes them.  Floating point scores are records [kind, v]: kind is    *)
(* "num" for a finite float (v is the value in tenths), "nan", "inf",      *)
(* "ninf" for the non-finite floats and "bad" for an object float() cannot *)
(* coerce (ValueError / TypeError).  Positions are 0-based as in Python.   *)
(***************************************************************************)
EXTENDS Integers, Sequences, FiniteSets, TLC

(***************************************************************************)
(* Bounds of the model.                                                    *)
(***************************************************************************)
NumCallers == 2      \* concurrent request handlers (coroutines)
MaxCalls == 3        \* rerank calls issued in one behaviour
MaxClock == 2        \* the monotonic clock runs over 0..MaxClock
CacheTtl == 2        \* config.cache_ttl_seconds (scaled down)

\* RERANKER_CACHE_SIZE as app.py sets it
CacheSize == 4

\* ThreadPoolExecutor(max_workers=1)
MaxWorkersTwo == 1 + 1
MaxWorkers == 1

Callers == 1..NumCallers

Min(a, b) == IF a <= b THEN a ELSE b
Max(a, b) == IF a >= b THEN a ELSE b

(***************************************************************************)
(* Strings.                                                                *)
(***************************************************************************)
Sp == " "

RECURSIVE LStrip(_)
LStrip(s) == IF s # <<>> /\ Head(s) = Sp THEN LStrip(Tail(s)) ELSE s

RECURSIVE RStrip(_)
RStrip(s) ==
    IF s # <<>> /\ s[Len(s)] = Sp THEN RStrip(SubSeq(s, 1, Len(s) - 1)) ELSE s

\* str.strip()
Strip(s) == RStrip(LStrip(s))

(***************************************************************************)
(* Documents.  A dict document carries the text candidates "text",         *)
(* "content", "answer" (<<>> stands for a missing, None or empty value:    *)
(* all are falsy for `or`) and a metadata value (0 stands for missing or   *)
(* empty).  A non-dict document (kind "str") carries its str() in text.    *)
(***************************************************************************)
Doc(t, m) ==
    [kind |-> "dict", text |-> t, content |-> <<>>, answer |-> <<>>, metadata |-> m]

ContentDoc(t, m) ==
    [kind |-> "dict", text |-> <<>>, content |-> t, answer |-> <<>>, metadata |-> m]

StrDoc(t) ==
    [kind |-> "str", text |-> t, content |-> <<>>, answer |-> <<>>, metadata |-> 0]

\* doc.get("text") or doc.get("content") or doc.get("answer") or ""
TextOf(doc) ==
    IF doc.text # <<>> THEN doc.text
    ELSE IF doc.content # <<>> THEN doc.content
    ELSE doc.answer

\* _normalize_documents
NormalizeDocuments(documents) ==
    [i \in 1..Len(documents) |->
        LET doc == documents[i] IN
        IF doc.kind = "dict"
        THEN [index |-> i - 1,
              text |-> Strip(TextOf(doc)),
              metadata |-> doc.metadata,
              raw |-> doc]
        ELSE [index |-> i - 1,
              text |-> Strip(doc.text),
              metadata |-> 0,
              raw |-> Doc(Strip(doc.text), 0)]]

(***************************************************************************)
(* _cache_key: sha256 over the query bytes followed by every text's bytes, *)
(* hex digest cut to 32 characters.  The digest is taken to be injective   *)
(* on the byte string it is fed, so a key is represented by that byte      *)
(* string: the successive digest.update() calls concatenate.               *)
(***************************************************************************)
RECURSIVE DigestUpdates(_, _)
DigestUpdates(bytes, docs) ==
    IF docs = <<>> THEN bytes
    ELSE DigestUpdates(bytes \o Head(docs).text, Tail(docs))

CacheKey(query, documents) == DigestUpdates(query, documents)

\* _model_inputs
ModelInputs(query, documents) ==
    [i \in 1..Len(documents) |-> <<query, documents[i].text>>]

(***************************************************************************)
(* Scores.                                                                 *)
(***************************************************************************)
Num(x) == [kind |-> "num", v |-> x]
NaN == [kind |-> "nan", v |-> 0]
PosInf == [kind |-> "inf", v |-> 0]
NegInf == [kind |-> "ninf", v |-> 0]
NotAFloat == [kind |-> "bad", v |-> 0]

\* The scoring model (CrossEncoder.predict): one raw score per pair, a fixed
\* function of the pair.
ModelScore(pair) ==
    LET t == pair[2] IN
    CASE t = <<"a">> -> Num(2)
      [] t = <<"a", "a">> -> Num(9)
      [] t = <<"b">> -> Num(5)
      [] t = <<"x">> -> Num(15)
      [] t = <<"y">> -> NegInf
      [] t = <<"z">> -> Num(0)
      [] t = <<"w">> -> PosInf
      [] t = <<"s">> -> NotAFloat
      [] t = <<"m">> -> Num(-3)
      [] t = <<>> -> NaN
      [] OTHER -> Num(1)

ModelPredict(pairs) == [i \in 1..Len(pairs) |-> ModelScore(pairs[i])]

\* predict_with_error_handling: the value the executor's future resolves
\* to; exc is TRUE when the work item raised
PredictReraises(pairs, raises) ==
    IF raises
    THEN [exc |-> TRUE, scores |-> <<>>]
    ELSE [exc |-> FALSE, scores |-> ModelPredict(pairs)]

PredictWithErrorHandling(pairs, raises) ==
    IF raises
    THEN [exc |-> FALSE, scores |-> [i \in 1..Len(pairs) |-> Num(0)]]
    ELSE [exc |-> FALSE, scores |-> ModelPredict(pairs)]

\* the sanitising block of rerank: float(score), then math.isfinite
SafeScoreKeepsNonFinite(score) == IF score.kind = "bad" THEN Num(0) ELSE score

SafeScore(score) ==
    IF score.kind = "bad" THEN Num(0)            \* ValueError, TypeError
    ELSE IF score.kind # "num" THEN Num(0)       \* not math.isfinite
    ELSE score

\* for doc, score in zip(normalized, scores): ranked.append(...)
Ranked(normalized, scores) ==
    [i \in 1..Min(Len(normalized), Len(scores)) |->
        [index |-> normalized[i].index,
         score |-> SafeScore(scores[i]),
         document |-> normalized[i].raw]]

\* list.sort(key=score, reverse=True): stable, equal keys keep their order
RECURSIVE InsertDesc(_, _)
InsertDesc(sorted, item) ==
    IF sorted = <<>> THEN <<item>>
    ELSE IF Head(sorted).score.v >= item.score.v
         THEN <<Head(sorted)>> \o InsertDesc(Tail(sorted), item)
         ELSE <<item>> \o sorted

RECURSIVE InsertDescTiesReversed(_, _)
InsertDescTiesReversed(sorted, item) ==
    IF sorted = <<>> THEN <<item>>
    ELSE IF Head(sorted).score.v > item.score.v
         THEN <<Head(sorted)>> \o InsertDescTiesReversed(Tail(sorted), item)
         ELSE <<item>> \o sorted

RECURSIVE SortFrom(_, _)
SortFrom(sorted, rest) ==
    IF rest = <<>> THEN sorted
    ELSE SortFrom(InsertDesc(sorted, Head(rest)), Tail(rest))

RECURSIVE SortFromTiesReversed(_, _)
SortFromTiesReversed(sorted, rest) ==
    IF rest = <<>> THEN sorted
    ELSE SortFromTiesReversed(InsertDescTiesReversed(sorted, Head(rest)), Tail(rest))

\* sorted(..., key=score)[::-1]: descending, but equal keys are reversed
SortReversed(ranked) == SortFromTiesReversed(<<>>, ranked)

SortDesc(ranked) == SortFrom(<<>>, ranked)

\* top_k: <<>> is None, <<k>> is the integer k.  seq[:k] as Python slices
Slice(seq, k) ==
    IF k >= 0 THEN SubSeq(seq, 1, Min(k, Len(seq)))
    ELSE SubSeq(seq, 1, Max(Len(seq) + k, 0))

(***************************************************************************)
(* The result cache: cachetools.TTLCache, a sequence of entries            *)
(* [key, value, expires] in least-recently-used-first order.  The field    *)
(* inserted is history: the time of the store that created the entry.      *)
(***************************************************************************)
\* TTLCache(maxsize=max(1, cache_size // 4), ttl=cache_ttl_seconds)
MaxSize == Max(1, CacheSize \div 4)
Ttl == CacheTtl

CacheKeys(c) == {c[i].key : i \in 1..Len(c)}

CacheWithout(c, k) == SelectSeq(c, LAMBDA e : e.key # k)

CacheEntry(c, k) == c[CHOOSE i \in 1..Len(c) : c[i].key = k]

\* key in cache (TTLCache.__contains__): present and not expired
CacheContains(c, k, now) ==
    \E i \in 1..Len(c) : c[i].key = k /\ now < c[i].expires

\* if cache_key in self._cache
CachedNever(c, k, now) == FALSE

Cached(c, k, now) == CacheContains(c, k, now)

\* TTLCache.expire(time)
CacheExpire(c, now) == SelectSeq(c, LAMBDA e : now < e.expires)

\* a read that renews the entry's expiry (a sliding time-to-live)
CacheGetItemRenews(c, k, now) ==
    IF k \notin CacheKeys(c)
    THEN [found |-> FALSE, value |-> <<>>, cache |-> c]
    ELSE LET e == CacheEntry(c, k) IN
         [found |-> now < e.expires,
          value |-> e.value,
          cache |-> Append(CacheWithout(c, k),
                           IF now < e.expires
                           THEN [e EXCEPT !.expires = now + Ttl]
                           ELSE e)]

\* cache[key] (TTLCache.__getitem__): KeyError when missing or expired;
\* the entry becomes the most recently used
CacheGetItem(c, k, now) ==
    IF k \notin CacheKeys(c)
    THEN [found |-> FALSE, value |-> <<>>, cache |-> c]
    ELSE LET e == CacheEntry(c, k) IN
         [found |-> now < e.expires,
          value |-> e.value,
          cache |-> Append(CacheWithout(c, k), e)]

\* cache[key] = value (TTLCache.__setitem__): expire, make room by
\* dropping least recently used entries, store with a fresh expiry
CacheSetItem(c, k, v, now) ==
    LET live == CacheExpire(c, now)
        room == IF k \in CacheKeys(live) \/ Len(live) + 1 <= MaxSize
                THEN live
                ELSE SubSeq(live, Len(live) + 2 - MaxSize, Len(live))
    IN  Append(CacheWithout(room, k),
               [key |-> k, value |-> v, expires |-> now + Ttl, inserted |-> now])

(***************************************************************************)
(* Requests.                                                               *)
(***************************************************************************)
Query == <<"q">>

\* scored [0.2, 0.9]
Pair == << Doc(<<"a">>, 0), Doc(<<"a", "a">>, 0) >>

\* scored [NaN, 1.5, -Infinity, a str]
Mixed ==
    << ContentDoc(<<" ">>, 0), Doc(<<"x">>, 1), StrDoc(<<"y", " ">>),
       Doc(<<"s">>, 0) >>

None == <<>>
TopKs == { None, <<-1>>, <<3>> }

Request(q, d, k) == [query |-> q, documents |-> d, top_k |-> k]

EmptyRequests ==
    { Request(Query, <<>>, None),
      Request(<<>>, << Doc(<<"a">>, 0) >>, <<3>>) }

Requests ==
    { Request(Query, Mixed, k) : k \in TopKs }
    \cup { Request(Query, Pair, None) }
    \cup EmptyRequests

AllKeys == { CacheKey(r.query, NormalizeDocuments(r.documents)) : r \in Requests }

\* if not query or not documents
EmptyInputQueryOnly(query, documents) == query = <<>>

EmptyInput(query, documents) == query = <<>> \/ documents = <<>>

\* cached[:top_k] if top_k is not None else list(cached)
HitResult(cached, top_k) ==
    IF top_k # None THEN Slice(cached, top_k[1]) ELSE cached

\* if top_k is not None: ranked = ranked[:top_k]
Truncated(ranked, top_k) ==
    IF top_k # None THEN Slice(ranked, top_k[1]) ELSE ranked

(***************************************************************************)
(* State.                                                                  *)
(***************************************************************************)
VARIABLES
    clock,          \* time.monotonic(), the TTLCache timer
    cache,          \* self._cache
    model,          \* self._model: "none" or "loaded"
    model_loaded,   \* self._model_loaded
    queue,          \* self._executor: work items not yet started, FIFO
    running,        \* work items a worker thread is executing
    loop,           \* the coroutine holding the event-loop thread in a
                    \* blocking stretch (_load_model), 0 when none
    pc,             \* per caller: "idle", "loading", "validating", "awaiting"
    req,            \* per caller: the arguments of its call in progress
    cache_key,      \* per caller: rerank's local cache_key
    fut,            \* per caller: the future run_in_executor returned
    calls,          \* rerank calls issued so far
    predictRaised,  \* history: per caller, model.predict raised in its batch
    last,           \* history: the most recent return of a rerank call
    computed,       \* history: per key, model invocations since an entry
                    \* for the key last expired or was evicted
    fullServed,     \* history: completed rerank(q, D, None) misses whose
                    \* entry has since neither expired nor been evicted
    healthy,        \* what the latest health() returned: <<>> before any
                    \* call, else <<b>> for the boolean b
    probe           \* the inputs and results of _cache_key applied on its own

service == << clock, cache, model, model_loaded, queue, running, loop, pc, req,
              cache_key, fut, calls, predictRaised, last, computed, fullServed >>

vars == << service, healthy, probe >>

NoReq == Request(<<>>, <<>>, None)
NoFut == [done |-> FALSE, exc |-> FALSE, scores |-> <<>>]

\* how a call ended: status "ok" with the returned list, or "error" with
\* the exception raised; path is "empty", "hit", "miss" or "load"
Outcome(r, p, status, value, exc, raised) ==
    [req |-> r, path |-> p, status |-> status, value |-> value,
     exc |-> exc, raised |-> raised]

NoProbe == [stage |-> "none", query |-> <<>>, a |-> <<>>, b |-> <<>>,
            keyA |-> <<>>, keyB |-> <<>>]

NoReturn == Outcome(NoReq, "none", "none", <<>>, "", FALSE)

\* CrossEncoderReranker.__init__, lazily or with preload_model
Constructed ==
    /\ clock = 0
    /\ cache = <<>>
    /\ model \in {"none", "loaded"}
    /\ model_loaded = (model = "loaded")
    /\ queue = <<>>
    /\ running = {}
    /\ loop = 0
    /\ pc = [c \in Callers |-> "idle"]
    /\ req = [c \in Callers |-> NoReq]
    /\ cache_key = [c \in Callers |-> <<>>]
    /\ fut = [c \in Callers |-> NoFut]
    /\ calls = 0
    /\ predictRaised = [c \in Callers |-> FALSE]
    /\ last = NoReturn
    /\ computed = [k \in AllKeys |-> 0]
    /\ fullServed = {}
    /\ healthy = <<>>

Init == Constructed /\ probe = NoProbe

(***************************************************************************)
(* History bookkeeping: what is forgotten when entries leave the cache.    *)
(***************************************************************************)
LiveKeys(c, now) == {c[i].key : i \in {j \in 1..Len(c) : now < c[j].expires}}

\* keys whose entry was served at (c, now) and is gone at (c2, now2)
LostKeys(c, now, c2, now2) == LiveKeys(c, now) \ LiveKeys(c2, now2)

ComputedAfter(c, now, c2, now2) ==
    [k \in AllKeys |-> IF k \in LostKeys(c, now, c2, now2) THEN 0 ELSE computed[k]]

FullServedAfter(c, now, c2, now2) ==
    {r \in fullServed : r.key \notin LostKeys(c, now, c2, now2)}

\* the caller's frame is dropped when its call ends
EndCall(c) ==
    /\ pc' = [pc EXCEPT ![c] = "idle"]
    /\ req' = [req EXCEPT ![c] = NoReq]
    /\ cache_key' = [cache_key EXCEPT ![c] = <<>>]
    /\ fut' = [fut EXCEPT ![c] = NoFut]
    /\ predictRaised' = [predictRaised EXCEPT ![c] = FALSE]

\* loop.run_in_executor(self._executor, predict_with_error_handling, pairs)
Submit(c, query, normalized) ==
    /\ queue' = Append(queue, [caller |-> c, pairs |-> ModelInputs(query, normalized)])
    /\ pc' = [pc EXCEPT ![c] = "awaiting"]

(***************************************************************************)
(* rerank, from its entry to its first suspension or its return.  The      *)
(* timer is read once by `cache_key in self._cache` and once more by       *)
(* `self._cache[cache_key]`; late is the time that passed in between.      *)
(***************************************************************************)
Rerank(c, query, documents, top_k) ==
    /\ UNCHANGED << probe, healthy >>
    /\ pc[c] = "idle"
    /\ loop = 0
    /\ calls < MaxCalls
    /\ calls' = calls + 1
    /\ IF EmptyInput(query, documents)
       THEN /\ last' = Outcome(Request(query, documents, top_k), "empty",
                               "ok", <<>>, "", FALSE)
            /\ UNCHANGED << clock, cache, model, model_loaded, queue, running,
                            loop, pc, req, cache_key, fut, predictRaised,
                            computed, fullServed >>
       ELSE LET normalized == NormalizeDocuments(documents)
                key == CacheKey(query, normalized)
            IN
            IF Cached(cache, key, clock)
            THEN \E late \in 0..1 :
                 LET got == CacheGetItem(cache, key, clock + late) IN
                 /\ clock + late <= MaxClock
                 /\ clock' = clock + late
                 /\ cache' = got.cache
                 /\ last' = IF got.found
                            THEN Outcome(Request(query, documents, top_k), "hit",
                                         "ok", HitResult(got.value, top_k), "", FALSE)
                            ELSE Outcome(Request(query, documents, top_k), "hit",
                                         "error", <<>>, "KeyError", FALSE)
                 /\ computed' = ComputedAfter(cache, clock, cache', clock')
                 /\ fullServed' = FullServedAfter(cache, clock, cache', clock')
                 /\ UNCHANGED << model, model_loaded, queue, running, loop,
                                 pc, req, cache_key, fut, predictRaised >>
            ELSE /\ req' = [req EXCEPT ![c] = Request(query, documents, top_k)]
                 /\ cache_key' = [cache_key EXCEPT ![c] = key]
                 /\ IF model # "none"
                    THEN /\ Submit(c, query, normalized)
                         /\ UNCHANGED loop
                    ELSE /\ pc' = [pc EXCEPT ![c] = "loading"]
                         /\ loop' = c
                         /\ UNCHANGED queue
                 /\ UNCHANGED << clock, cache, model, model_loaded, running,
                                 fut, predictRaised, last, computed, fullServed >>

(***************************************************************************)
(* _load_model on the caller's thread: constructing the CrossEncoder       *)
(* either raises (RuntimeError to the caller) or sets self._model, after   *)
(* which the validation model.predict(test_pairs) runs on this thread.     *)
(* What follows the validation (gc.collect, the psutil memory report) is   *)
(* still inside the outer try: only ImportError is caught there, any other *)
(* exception of the memory report leaves as RuntimeError with the model    *)
(* already set.                                                            *)
(***************************************************************************)
LoadModel(c) ==
    /\ UNCHANGED << probe, healthy >>
    /\ pc[c] = "loading"
    /\ \E ok \in BOOLEAN :
        IF ok
        THEN /\ model' = "loaded"
             /\ model_loaded' = TRUE
             /\ pc' = [pc EXCEPT ![c] = "validating"]
             /\ UNCHANGED << loop, req, cache_key, fut, predictRaised, last >>
        ELSE /\ last' = Outcome(req[c], "load", "error", <<>>, "RuntimeError", FALSE)
             /\ EndCall(c)
             /\ loop' = 0
             /\ UNCHANGED << model, model_loaded >>
    /\ UNCHANGED << clock, cache, queue, running, calls, computed, fullServed >>

\* the validation predict ends (its exceptions are caught and logged);
\* then either _load_model returns and rerank submits its batch, or the
\* memory report raises and _load_model raises RuntimeError
LoadReturn(c) ==
    /\ UNCHANGED << probe, healthy >>
    /\ pc[c] = "validating"
    /\ loop' = 0
    /\ \E ok \in BOOLEAN :
        IF ok
        THEN /\ Submit(c, req[c].query, NormalizeDocuments(req[c].documents))
             /\ UNCHANGED << req, cache_key, fut, predictRaised, last >>
        ELSE /\ last' = Outcome(req[c], "load", "error", <<>>, "RuntimeError", FALSE)
             /\ EndCall(c)
             /\ UNCHANGED queue
    /\ UNCHANGED << clock, cache, model, model_loaded, running, calls, computed,
                    fullServed >>

(***************************************************************************)
(* The executor's worker threads.                                          *)
(***************************************************************************)
WorkerStart ==
    /\ UNCHANGED << probe, healthy >>
    /\ queue # <<>>
    /\ Cardinality(running) < MaxWorkers
    /\ running' = running \cup {Head(queue)}
    /\ queue' = Tail(queue)
    /\ computed' = [computed EXCEPT ![cache_key[Head(queue).caller]] = @ + 1]
    /\ UNCHANGED << clock, cache, model, model_loaded, loop, pc, req, cache_key,
                    fut, calls, predictRaised, last, fullServed >>

\* the work item ends: model.predict returned or raised
WorkerFinish(job) ==
    /\ UNCHANGED << probe, healthy >>
    /\ job \in running
    /\ running' = running \ {job}
    /\ \E raises \in BOOLEAN :
        LET result == PredictWithErrorHandling(job.pairs, raises) IN
        IF job.caller \in Callers
        THEN /\ fut' = [fut EXCEPT ![job.caller] =
                          [done |-> TRUE, exc |-> result.exc, scores |-> result.scores]]
             /\ predictRaised' = [predictRaised EXCEPT ![job.caller] = raises]
        ELSE UNCHANGED << fut, predictRaised >>   \* the waiter was cancelled
    /\ UNCHANGED << clock, cache, model, model_loaded, queue, loop, pc, req,
                    cache_key, calls, last, computed, fullServed >>

(***************************************************************************)
(* rerank resumes after the await: sanitise, sort, truncate, store, return *)
(***************************************************************************)
Resume(c) ==
    /\ UNCHANGED << probe, healthy >>
    /\ pc[c] = "awaiting"
    /\ fut[c].done
    /\ loop = 0
    /\ EndCall(c)
    /\ IF fut[c].exc
       THEN /\ last' = Outcome(req[c], "miss", "error", <<>>, "Exception",
                               predictRaised[c])
            /\ UNCHANGED << cache, computed, fullServed >>
       ELSE LET normalized == NormalizeDocuments(req[c].documents)
                ranked == Truncated(SortDesc(Ranked(normalized, fut[c].scores)),
                                    req[c].top_k)
            IN
            /\ cache' = CacheSetItem(cache, cache_key[c], ranked, clock)
            /\ last' = Outcome(req[c], "miss", "ok", ranked, "", predictRaised[c])
            /\ computed' = ComputedAfter(cache, clock, cache', clock)
            /\ fullServed' =
                 FullServedAfter(cache, clock, cache', clock)
                 \cup (IF req[c].top_k = None
                       THEN {[key |-> cache_key[c], query |-> req[c].query,
                              documents |-> req[c].documents, ranking |-> ranked]}
                       ELSE {})
    /\ UNCHANGED << clock, model, model_loaded, queue, running, loop, calls >>

(***************************************************************************)
(* The task running rerank is cancelled while it awaits the executor:      *)
(* CancelledError is raised at the await and the frame is dropped.  The    *)
(* cancellation is passed on to the executor's future: a work item not yet *)
(* started is cancelled and skipped by the worker, one that is running     *)
(* cannot be cancelled and runs on with no waiter (caller 0).              *)
(***************************************************************************)
NoWaiter == 0

\* a cancellation that leaves the running work item bound to its caller
CancelKeepsWaiter(c) ==
    /\ UNCHANGED << probe, healthy >>
    /\ pc[c] = "awaiting"
    /\ loop = 0
    /\ queue' = SelectSeq(queue, LAMBDA j : j.caller # c)
    /\ last' = Outcome(req[c], "miss", "error", <<>>, "CancelledError", FALSE)
    /\ EndCall(c)
    /\ UNCHANGED << clock, cache, model, model_loaded, running, loop, calls,
                    computed, fullServed >>

Cancel(c) ==
    /\ UNCHANGED << probe, healthy >>
    /\ pc[c] = "awaiting"
    /\ loop = 0
    /\ queue' = SelectSeq(queue, LAMBDA j : j.caller # c)
    /\ running' = { IF j.caller = c THEN [j EXCEPT !.caller = NoWaiter] ELSE j :
                    j \in running }
    /\ last' = Outcome(req[c], "miss", "error", <<>>, "CancelledError", FALSE)
    /\ EndCall(c)
    /\ UNCHANGED << clock, cache, model, model_loaded, loop, calls, computed,
                    fullServed >>

\* time passes (the timer is only ever compared with expiry stamps, so
\* time that passes while no entry is live is not counted)
Tick ==
    /\ UNCHANGED << probe, healthy >>
    /\ clock < MaxClock
    /\ LiveKeys(cache, clock) # {}
    /\ clock' = clock + 1
    /\ computed' = ComputedAfter(cache, clock, cache, clock')
    /\ fullServed' = FullServedAfter(cache, clock, cache, clock')
    /\ UNCHANGED << cache, model, model_loaded, queue, running, loop, pc, req,
                    cache_key, fut, calls, predictRaised, last >>

(***************************************************************************)
(* health: a coroutine on the event loop.  It answers                      *)
(* `self.config is not None and self._executor is not None`; __init__ sets *)
(* both and nothing unsets them.                                           *)
(***************************************************************************)
\* a health check that loads the model to answer
HealthLoadsModel ==
    /\ loop = 0
    /\ healthy' = <<TRUE>>
    /\ model' = "loaded"
    /\ model_loaded' = TRUE
    /\ UNCHANGED << clock, cache, queue, running, loop, pc, req, cache_key, fut,
                    calls, predictRaised, last, computed, fullServed, probe >>

Health ==
    /\ loop = 0
    /\ healthy' = <<TRUE>>
    /\ UNCHANGED << service, probe >>

Next ==
    \/ \E c \in Callers, r \in Requests : Rerank(c, r.query, r.documents, r.top_k)
    \/ \E c \in Callers : LoadModel(c)
    \/ \E c \in Callers : LoadReturn(c)
    \/ WorkerStart
    \/ \E job \in running : WorkerFinish(job)
    \/ \E c \in Callers : Resume(c)
    \/ Tick

Spec == Init /\ [][Next]_vars

(***************************************************************************)
(* The same service under requests that share one fingerprint: the two    *)
(* document lists have the same texts once normalised and differ in their  *)
(* metadata, in the field the text comes from and in surrounding           *)
(* whitespace.                                                             *)
(***************************************************************************)
PairOther == << ContentDoc(<<" ", "a">>, 1), Doc(<<"a", "a">>, 1) >>

SharedRequests ==
    { Request(Query, Pair, None), Request(Query, PairOther, None) }

NextOps ==
    \/ \E c \in Callers, r \in SharedRequests :
          Rerank(c, r.query, r.documents, r.top_k)
    \/ \E c \in Callers : LoadModel(c)
    \/ \E c \in Callers : LoadReturn(c)
    \/ WorkerStart
    \/ \E job \in running : WorkerFinish(job)
    \/ \E c \in Callers : Resume(c)
    \/ Tick
    \/ Health
    \/ \E c \in Callers : Cancel(c)

SpecOps == Init /\ [][NextOps]_vars

\* the worker thread keeps taking and finishing work items
FairSpecOps ==
    /\ SpecOps
    /\ WF_vars(WorkerStart)
    /\ WF_vars(\E job \in running : WorkerFinish(job))

(***************************************************************************)
(* The same service under requests whose query and texts differ and run    *)
(* together to the same characters: "q" with "a", "aa"; "q" with "aaa";    *)
(* "qa" with "aa".                                                         *)
(***************************************************************************)
Joined == << Doc(<<"a", "a", "a">>, 0) >>

CollidingRequests ==
    { Request(Query, Pair, None),
      Request(Query, Joined, None),
      Request(<<"q", "a">>, << Doc(<<"a", "a">>, 0) >>, None) }

NextCollide ==
    \/ \E c \in Callers, r \in CollidingRequests :
          Rerank(c, r.query, r.documents, r.top_k)
    \/ \E c \in Callers : LoadModel(c)
    \/ \E c \in Callers : LoadReturn(c)
    \/ WorkerStart
    \/ \E job \in running : WorkerFinish(job)
    \/ \E c \in Callers : Resume(c)
    \/ Tick

SpecCollide == Init /\ [][NextCollide]_vars

(***************************************************************************)
(* _cache_key on its own: a query and two lists of documents, keyed.       *)
(***************************************************************************)
MaxKeyDocs == 2      \* documents per list

KeyTexts == { <<"a">>, <<"a", "a">>, <<"b">> }

RECURSIVE ListsUpTo(_)
ListsUpTo(n) ==
    IF n = 0 THEN { <<>> }
    ELSE LET shorter == ListsUpTo(n - 1) IN
         shorter \cup { Append(l, Doc(t, 0)) : l \in shorter, t \in KeyTexts }

KeyQueries == { <<"q">>, <<"a">> }

InitKey ==
    /\ Constructed
    /\ \E q \in KeyQueries, a \in ListsUpTo(MaxKeyDocs), b \in ListsUpTo(MaxKeyDocs) :
         probe = [stage |-> "input", query |-> q, a |-> a, b |-> b,
                  keyA |-> <<>>, keyB |-> <<>>]

ApplyCacheKey ==
    /\ probe.stage = "input"
    /\ probe' = [probe EXCEPT
                   !.stage = "keyed",
                   !.keyA = CacheKey(probe.query, NormalizeDocuments(probe.a)),
                   !.keyB = CacheKey(probe.query, NormalizeDocuments(probe.b))]
    /\ UNCHANGED << service, healthy >>

SpecKey == InitKey /\ [][ApplyCacheKey]_vars

(***************************************************************************)
(* Properties.                                                             *)
(***************************************************************************)
\* a cache-missing call of c returns normally in this step
MissReturns(c) == pc[c] = "awaiting" /\ pc'[c] = "idle" /\ last'.status = "ok"

\* len(seq[:k]) for top_k (None: the whole list)
ReturnedLength(n, top_k) ==
    IF top_k = None THEN n
    ELSE IF top_k[1] >= 0 THEN Min(top_k[1], n)
    ELSE Max(n + top_k[1], 0)

\* what sanitising is to make of a raw score
Finite(score) == score.kind = "num"
Sanitized(raw) == IF Finite(raw) THEN raw ELSE Num(0)

\* the ranking of a request from the model's scores, and from the 0.0
\* scores substituted for a failed batch
ModelRanking(r) ==
    LET normalized == NormalizeDocuments(r.documents) IN
    SortDesc(Ranked(normalized, ModelPredict(ModelInputs(r.query, normalized))))

FallbackRanking(r) ==
    LET normalized == NormalizeDocuments(r.documents) IN
    SortDesc(Ranked(normalized, [i \in 1..Len(normalized) |-> Num(0)]))

\* C1: after a rerank call that missed the cache and completed, the entry
\* stored under its fingerprint holds one scored entry per input document,
\* whatever top_k the call was given.
C1_CacheHoldsFullResult ==
    [][\A c \in Callers :
         MissReturns(c) =>
            \E i \in 1..Len(cache') :
               /\ cache'[i].key = cache_key[c]
               /\ Len(cache'[i].value) = Len(req[c].documents)]_vars

\* C2: whatever calls came before, rerank(q, D, k) with k positive returns
\* the first min(k, |D|) entries of the full ordered ranking of D and
\* rerank(q, D, None) returns all |D| entries, from the cache or freshly
\* scored.
C2_ReturnsPrefixOfFullRanking ==
    (/\ last.status = "ok"
     /\ last.path \in {"hit", "miss"}
     /\ (last.req.top_k = None \/ last.req.top_k[1] > 0))
    => LET n == IF last.req.top_k = None THEN Len(last.req.documents)
                ELSE Min(last.req.top_k[1], Len(last.req.documents))
       IN  \/ last.value = SubSeq(ModelRanking(last.req), 1, n)
           \/ last.value = SubSeq(FallbackRanking(last.req), 1, n)

\* C3: once a rerank(q, D, None) has completed, a rerank(q, D, None) issued
\* while the entry has neither expired nor been evicted returns the same
\* ranking and submits nothing to the scoring model.  (Stated for a first
\* call that got the model's scores; the all-zero ranking of a failed batch
\* is let pass as the second call's result.)
C3_RepeatServedSameRanking ==
    [][\A r \in fullServed :
         (/\ calls' = calls + 1
          /\ r \in fullServed'
          /\ r.ranking = ModelRanking(Request(r.query, r.documents, None))
          /\ \A c \in Callers : req'[c] = req[c]
          /\ last'.req = Request(r.query, r.documents, None))
         => /\ last'.status = "ok"
            /\ last'.value \in {r.ranking,
                                FallbackRanking(Request(r.query, r.documents, None))}
            /\ queue' = queue
            /\ pc' = pc]_vars

\* C4: at most one model.predict executes at any instant, on the worker
\* threads and the event-loop thread together.
C4_OnePredictAtATime ==
    Cardinality(running) + Cardinality({c \in Callers : pc[c] = "validating"}) <= 1

\* a predict is executing while another caller's batch waits in the queue
C4_Witness == Cardinality(running) = 1 /\ queue # <<>>

\* C5 as stated: as long as no entry for a fingerprint expires or is
\* evicted, the scoring model is invoked at most once for that fingerprint.
C5_OneComputationPerFingerprint == \A k \in AllKeys : computed[k] <= 1

\* C5 amended: a rerank call submits a batch to the scoring model only when
\* no unexpired entry for its fingerprint is stored; calls that look the
\* cache up before the first of them has stored its result each compute.
C5_NoComputationOnceStored ==
    [][\A c \in Callers :
         (pc[c] # "awaiting" /\ pc'[c] = "awaiting")
         => ~ \E i \in 1..Len(cache) :
                 cache[i].key = cache_key'[c] /\ clock < cache[i].expires]_vars

\* a call was served from the cache, its fingerprint computed once
C5_Witness ==
    /\ last.path = "hit"
    /\ last.status = "ok"
    /\ computed[CacheKey(last.req.query, NormalizeDocuments(last.req.documents))] = 1

\* the request a step issues, when the step is the start of a call
Issued ==
    IF \E c \in Callers : req'[c] # req[c]
    THEN req'[CHOOSE c \in Callers : req'[c] # req[c]]
    ELSE last'.req

\* C6: rerank with an empty query or an empty document list returns an
\* empty list and leaves the cache, the model and the executor untouched.
C6_EmptyInputShortCircuits ==
    [][(calls' = calls + 1 /\ (Issued.query = <<>> \/ Issued.documents = <<>>))
       => /\ last'.status = "ok"
          /\ last'.value = <<>>
          /\ UNCHANGED << clock, cache, model, model_loaded, queue, running,
                          loop, pc, fut, computed >>]_vars

\* an empty document list was answered while the cache held an entry
C6_Witness ==
    /\ last.path = "empty"
    /\ last.req.query # <<>>
    /\ last.value = <<>>
    /\ cache # <<>>

\* every score returned or cached is a finite float
AllScoresFinite ==
    /\ \A i \in 1..Len(last.value) : Finite(last.value[i].score)
    /\ \A j \in 1..Len(cache) :
          \A i \in 1..Len(cache[j].value) : Finite(cache[j].value[i].score)

\* each entry of a fresh result carries its raw score if finite, else 0.0
ScoresSanitized(c) ==
    LET stored == cache'[CHOOSE j \in 1..Len(cache') : cache'[j].key = cache_key[c]].value
    IN  /\ \A i \in 1..Len(last'.value) :
              last'.value[i].score = Sanitized(fut[c].scores[last'.value[i].index + 1])
        /\ \A i \in 1..Len(stored) :
              stored[i].score = Sanitized(fut[c].scores[stored[i].index + 1])

\* C7: every score in every returned list and cache entry is finite; a raw
\* score that is NaN, infinite or not a float becomes 0.0 for that entry
\* only and a finite raw score is passed through unchanged.
C7_ScoresFiniteAndSanitized ==
    /\ []AllScoresFinite
    /\ [][\A c \in Callers : MissReturns(c) => ScoresSanitized(c)]_vars

\* raw [NaN, 1.5, -Infinity, str] came back as [0.0, 1.5, 0.0, 0.0] by index
C7_Witness ==
    /\ last.path = "miss"
    /\ last.status = "ok"
    /\ ~last.raised
    /\ last.req = Request(Query, Mixed, None)
    /\ \A i \in 1..4 :
          last.value[i].score = (IF last.value[i].index = 1 THEN Num(15) ELSE Num(0))

\* item a is ranked before the item at position p with sanitised score s
Before(a, p, s) == a.score.v > s.v \/ (a.score.v = s.v /\ a.index < p)

\* out is what a cache-missing call is to return for documents scored raw
SortedPrefix(out, raw, n, top_k) ==
    /\ Len(out) = ReturnedLength(n, top_k)
    /\ \A i \in 1..Len(out) :
          /\ out[i].index \in 0..(n - 1)
          /\ out[i].score = Sanitized(raw[out[i].index + 1])
    /\ \A i, j \in 1..Len(out) :
          i < j => Before(out[i], out[j].index, out[j].score)
    /\ \A p \in 0..(n - 1) :
          (\A i \in 1..Len(out) : out[i].index # p)
          => \A i \in 1..Len(out) : Before(out[i], p, Sanitized(raw[p + 1]))

\* C8: the list a cache-missing rerank returns holds the input positions
\* sorted by sanitised score descending, equal scores in ascending index
\* order: all of them when top_k is None, else the leading top_k of them.
C8_SortedStable ==
    [][\A c \in Callers :
         MissReturns(c) =>
            SortedPrefix(last'.value, fut[c].scores, Len(req[c].documents),
                         req[c].top_k)]_vars

\* scores [0.0, 1.5, 0.0, 0.0] after sanitising came back as 1, 0, 2, 3
C8_Witness ==
    /\ last.path = "miss"
    /\ last.status = "ok"
    /\ ~last.raised
    /\ last.req = Request(Query, Mixed, None)
    /\ [i \in 1..Len(last.value) |-> last.value[i].index] = <<1, 0, 2, 3>>

\* C9: when model.predict raises during a batch, the rerank call that
\* submitted it returns normally with the documents of the batch scored
\* 0.0 in original index order (all of them when top_k is None, else the
\* leading top_k), none with a real score.
C9_FailedBatchAllZero ==
    [][\A c \in Callers :
         (pc[c] = "awaiting" /\ pc'[c] = "idle" /\ predictRaised[c])
         => /\ last'.status = "ok"
            /\ Len(last'.value) = ReturnedLength(Len(req[c].documents), req[c].top_k)
            /\ \A i \in 1..Len(last'.value) :
                  /\ last'.value[i].index = i - 1
                  /\ last'.value[i].score = Num(0)
                  /\ last'.value[i].document = NormalizeDocuments(req[c].documents)[i].raw]_vars

\* a failed batch of four came back whole, all 0.0
C9_Witness ==
    /\ last.path = "miss"
    /\ last.raised
    /\ last.status = "ok"
    /\ last.req = Request(Query, Mixed, None)
    /\ Len(last.value) = 4

\* the texts _cache_key reads from a list of documents
Texts(docs) == [i \in 1..Len(docs) |-> NormalizeDocuments(docs)[i].text]

Occurrences(seq, x) == Cardinality({i \in 1..Len(seq) : seq[i] = x})

Reordering(s, t) ==
    /\ Len(s) = Len(t)
    /\ \A i \in 1..Len(s) : Occurrences(s, s[i]) = Occurrences(t, s[i])

\* C10: two document lists that are reorderings of each other and differ
\* as sequences of texts get different keys under the same query.
C10_KeyOrderSensitive ==
    (/\ probe.stage = "keyed"
     /\ Reordering(Texts(probe.a), Texts(probe.b))
     /\ Texts(probe.a) # Texts(probe.b))
    => probe.keyA # probe.keyB

\* C11: each entry a rerank call returns, from the cache or freshly scored,
\* carries as document the calling request's own original document at
\* position index.
C11_DocumentIsCallersOwn ==
    (last.status = "ok" /\ last.path \in {"hit", "miss"})
    => \A i \in 1..Len(last.value) :
          last.value[i].document =
             NormalizeDocuments(last.req.documents)[last.value[i].index + 1].raw

\* the fingerprint of a request
KeyOf(r) == CacheKey(r.query, NormalizeDocuments(r.documents))

\* C12: a rerank call is served from the cache only while the entry's age
\* is below the TTL, whatever reads came in between, and a call issued once
\* the age has reached the TTL is a miss that submits a batch to the model.
C12_NotServedPastTtl ==
    [][(calls' = calls + 1 /\ Issued.query # <<>> /\ Issued.documents # <<>>)
       => /\ (pc' = pc /\ last'.status = "ok")
             => \E i \in 1..Len(cache) :
                   /\ cache[i].key = KeyOf(Issued)
                   /\ clock' - cache[i].inserted < Ttl
          /\ \A i \in 1..Len(cache) :
                (cache[i].key = KeyOf(Issued) /\ clock - cache[i].inserted >= Ttl)
                => /\ \E c \in Callers : pc[c] = "idle" /\ pc'[c] = "awaiting"
                   /\ Len(queue') = Len(queue) + 1
                   /\ last' = last]_vars

\* a call missed on an entry that had outlived the TTL and waits for the
\* model's scores
C12_Witness ==
    \E c \in Callers, i \in 1..Len(cache) :
       /\ pc[c] = "awaiting"
       /\ cache[i].key = cache_key[c]
       /\ clock - cache[i].inserted >= Ttl

\* C13: the cache retains config.cache_size entries: a step at which no
\* time passes evicts no unexpired entry while the cache holds fewer than
\* CacheSize unexpired entries.
C13_RetainsConfiguredCapacity ==
    [][(clock' = clock /\ Cardinality(LiveKeys(cache, clock)) < CacheSize)
       => LiveKeys(cache, clock) \subseteq LiveKeys(cache', clock')]_vars

\* C14: health() leaves all service state unchanged: the model, the cache,
\* the clock the cache reads, the executor's queue and running work, and
\* every call in progress.
C14_HealthChangesNothing == [][healthy' # healthy => UNCHANGED service]_vars

\* health() answered on a service whose model was never loaded
C14_Witness == healthy # <<>> /\ model = "none" /\ ~model_loaded

\* C15: a rerank call whose batch the model raised on, and which got the
\* fallback 0.0 scores, leaves the cache unchanged.
C15_FailedBatchNotCached ==
    [][\A c \in Callers :
         (pc[c] = "awaiting" /\ pc'[c] = "idle" /\ predictRaised[c])
         => cache' = cache]_vars

\* C16: no rerank call loads the model or runs model.predict on the
\* event-loop thread, so no call ever holds that thread against the others.
C16_CallerThreadNeverRunsModel ==
    /\ \A c \in Callers : pc[c] \notin {"loading", "validating"}
    /\ loop = 0

\* C17: health() answers true only on a service whose model is loaded.
C17_HealthyOnlyWhenLoaded ==
    [][(healthy' # healthy /\ healthy' = <<TRUE>>)
       => (model = "loaded" /\ model_loaded)]_vars

\* C18: when _load_model raises inside a rerank call, the call ends with an
\* error and the service is as before the call: no model set, model_loaded
\* false, the cache and the executor untouched.
C18_FailedLoadChangesNothing ==
    [][\A c \in Callers :
         (pc[c] \in {"loading", "validating"} /\ pc'[c] = "idle")
         => /\ last'.status = "error"
            /\ model' = "none"
            /\ ~model_loaded'
            /\ cache' = cache
            /\ queue' = queue
            /\ running' = running]_vars

\* the batches the worker threads are executing
RunningPairs == { j.pairs : j \in running }

\* C19: when a caller is cancelled while it awaits the executor, the batch
\* it has running runs on to completion, its result reaches no caller and
\* no cache entry, every other batch is delivered to its own waiter, and
\* the executor becomes idle.
C19_CancelledBatchDrains ==
    /\ [](\A j \in running :
             j.caller \in Callers
             => pc[j.caller] = "awaiting" /\ ~fut[j.caller].done)
    /\ [][\A c \in Callers :
            (pc[c] = "awaiting" /\ pc'[c] = "idle" /\ last'.exc = "CancelledError")
            => /\ RunningPairs' = RunningPairs
               /\ cache' = cache
               /\ \A d \in Callers \ {c} : fut'[d] = fut[d]]_vars
    /\ [][\A j \in running :
            (j.caller \notin Callers /\ j \notin running')
            => fut' = fut /\ cache' = cache /\ last' = last /\ pc' = pc]_vars
    /\ (\E j \in running : j.caller \notin Callers)
          ~> (queue = <<>> /\ running = {})

\* a cancelled caller's batch is still running, another caller's batch is
\* queued behind it
C19_Witness ==
    /\ \E j \in running : j.caller \notin Callers
    /\ queue # <<>>
    /\ last.exc = "CancelledError"

\* C20: a rerank call given a top_k that is zero or negative returns one
\* entry per input document, from the cache or freshly scored.
C20_NonPositiveTopKReturnsAll ==
    (/\ last.status = "ok"
     /\ last.path \in {"hit", "miss"}
     /\ last.req.top_k # None
     /\ last.req.top_k[1] <= 0)
    => Len(last.value) = Len(last.req.documents)

\* C21: whatever time passes between rerank's membership test and its read
\* of the cache, the call does not raise: a call that found its key in the
\* cache returns normally.
C21_NoKeyErrorOnExpiry ==
    last.path = "hit" => (last.status = "ok" /\ last.exc # "KeyError")

\* C22: the list a rerank call returns for documents D has at most |D|
\* entries, with pairwise distinct index values in 0..|D|-1, whichever
\* requests were served before.
C22_IndicesWithinRequest ==
    (last.status = "ok" /\ last.path \in {"hit", "miss"})
    => /\ Len(last.value) <= Len(last.req.documents)
       /\ \A i \in 1..Len(last.value) :
             last.value[i].index \in 0..(Len(last.req.documents) - 1)
       /\ \A i, j \in 1..Len(last.value) :
             i # j => last.value[i].index # last.value[j].index

====
